---- MODULE Spec2Model ----
(***************************************************************************)
(* A model of apps/xtotp/src/main.rs: the TOTP engine (unpack_u64,         *)
(* generate_hmac_bytes, generate_totp_code) and the application around it  *)
(* (Xtotp::new, Xtotp::redraw, the message loop of xmain).                 *)
(*                                                                         *)
(* Numbers.  TLC's integers are 32 bits wide, the program's u64 is not.  A *)
(* u64 is therefore a tuple of 8 limbs of 8 bits, least significant limb   *)
(* first (limb p holds bits 8(p-1) .. 8p-1); shifts, masks, the division   *)
(* by the step and the power of ten are computed on the limbs.  The        *)
(* truncated code is below 2^31 and is kept as an integer.                 *)
(*                                                                         *)
(* HMAC.  The hash function lives in the hmac and sha1 crates, outside the *)
(* repository.  The model keeps what the program relies on: HMAC-SHA1 is a *)
(* function of (key, message) whose value is 20 bytes long and that takes  *)
(* a key of any length.  Its values are chosen by the environment the      *)
(* first time a (key, message) pair is used and remembered in hmac_memo.   *)
(***************************************************************************)
EXTENDS Integers, Sequences, FiniteSets, TLC

VARIABLES
    totp_entries,     \* Xtotp.totp_entries
    pc,               \* xmain: "loop" while in the message loop, "terminated" after terminate_process
    inbox,            \* messages sent to the server and not yet received (message ids)
    processed,        \* ids of the messages the loop has received, in order
    redraws,          \* number of calls of Xtotp::redraw
    screen,           \* the text views posted by the last redraw
    hmac_memo,        \* the values of HMAC-SHA1 fixed so far: <<key, message>> -> digest
    entry,            \* engine call: the TotpEntry argument
    unix_timestamp,   \* engine call: the unix_timestamp argument (u64 limbs)
    overflow_checks,  \* engine call: whether the build traps integer overflow
    result,           \* engine call: the outcome of generate_totp_code
    history,          \* repeated engine calls: the set of (entry, time, outcome) seen
    calls             \* repeated engine calls: how many were made

vars == <<totp_entries, pc, inbox, processed, redraws, screen, hmac_memo,
          entry, unix_timestamp, overflow_checks, result, history, calls>>

----------------------------------------------------------------------------
(* Bytes and bit operations *)

RECURSIVE BitAnd(_, _)
BitAnd(a, b) ==
    IF a = 0 \/ b = 0 THEN 0
    ELSE (a % 2) * (b % 2) + 2 * BitAnd(a \div 2, b \div 2)

RECURSIVE BitOr(_, _)
BitOr(a, b) ==
    IF a = 0 THEN b
    ELSE IF b = 0 THEN a
    ELSE (IF a % 2 = 1 \/ b % 2 = 1 THEN 1 ELSE 0) + 2 * BitOr(a \div 2, b \div 2)

RECURSIVE Pow2(_)
Pow2(n) == IF n = 0 THEN 1 ELSE 2 * Pow2(n - 1)

Shl(x, n) == x * Pow2(n)

----------------------------------------------------------------------------
(* u64 as 8 limbs, least significant first *)

RECURSIVE Limbs(_, _)
Limbs(n, k) == IF k = 0 THEN <<>> ELSE <<n % 256>> \o Limbs(n \div 256, k - 1)

\* The u64 of a number below 2^31.
U64(n) == Limbs(n, 8)

\* v >> bits, for a whole number of bytes.
U64Shr(v, bits) ==
    LET k == bits \div 8
    IN  [p \in 1..8 |-> IF p + k <= 8 THEN v[p + k] ELSE 0]

U64And(a, b) == [p \in 1..8 |-> BitAnd(a[p], b[p])]

\* v as u8
AsU8(v) == v[1]

\* The limbs 1..i of v / d and, in the carry r, the remainder of the limbs above i.
RECURSIVE DivLimbs(_, _, _, _)
DivLimbs(v, d, i, r) ==
    IF i = 0 THEN <<>>
    ELSE LET cur == r * 256 + v[i]
         IN  DivLimbs(v, d, i - 1, cur % d) \o <<cur \div d>>

\* v / d for a u64 v and a divisor 0 < d < 2^16 (u64 division, rounding down).
U64Div(v, d) == DivLimbs(v, d, 8, 0)

\* Whether v < 2^31, and then its value.
FitsInt(v) == v[5] = 0 /\ v[6] = 0 /\ v[7] = 0 /\ v[8] = 0 /\ v[4] < 128
ToInt(v) == v[1] + 256 * v[2] + 65536 * v[3] + 16777216 * v[4]

\* v * m + c on k limbs, with the carry out of the top limb as limb k+1.
RECURSIVE MulAddLimbs(_, _, _, _)
MulAddLimbs(v, m, c, p) ==
    IF p > Len(v) THEN <<c>>
    ELSE LET cur == v[p] * m + c
         IN  <<cur % 256>> \o MulAddLimbs(v, m, cur \div 256, p + 1)

\* 10_u64.pow(n): the wrapped value and whether the multiplication overflowed.
RECURSIVE U64Pow10(_)
U64Pow10(n) ==
    IF n = 0 THEN [value |-> U64(1), overflow |-> FALSE]
    ELSE LET prev == U64Pow10(n - 1)
             prod == MulAddLimbs(prev.value, 10, 0, 1)
         IN  [value    |-> SubSeq(prod, 1, 8),
              overflow |-> prev.overflow \/ prod[9] # 0]

----------------------------------------------------------------------------
(* The engine *)

Algorithms == {"HmacSha1", "HmacSha256", "HmacSha512"}

TotpEntry(name, step_seconds, shared_secret, digit_count, algorithm) ==
    [name |-> name, step_seconds |-> step_seconds, shared_secret |-> shared_secret,
     digit_count |-> digit_count, algorithm |-> algorithm]

\* The outcome of a call: kind is "Ok" (code is the string returned), "Err" (an
\* Error value returned) or "Panic" (the call aborted); "None" before the call.
\* msg, hash, offset, reads and binary are the call's local values, kept for the
\* properties: the HMAC message, the digest, the truncation offset, the indices
\* of the digest that the truncation reads (from 0) and the truncated number.
NoOutcome ==
    [kind |-> "None", why |-> "", code |-> <<>>, msg |-> <<>>, hash |-> <<>>,
     offset |-> 0, reads |-> {}, binary |-> 0]

\* unpack_u64 with the bytes stored least significant first (bytes[i]).
unpack_u64_little_endian(v) ==
    LET mask == U64(255)
    IN  [j \in 1..8 |->
            LET i == j - 1
            IN  AsU8(U64And(mask, U64Shr(v, i * 8)))]

unpack_u64(v) ==
    LET mask == U64(255)
    IN  [j \in 1..8 |->
            LET i == 8 - j      \* bytes[7 - i], counted from 1
            IN  AsU8(U64And(mask, U64Shr(v, i * 8)))]

\* Hmac::<Sha1>::new_from_slice: HMAC takes a key of any length (a short key is
\* padded with zeros, a long one is hashed first), so the call never returns
\* InvalidLength.
Hmac_new_from_slice(key) == "Ok"

\* mac.update(message); mac.finalize().into_bytes(), with H the HMAC-SHA1 function.
Hmac_finalize(H, key, message) == H[<<key, message>>]

\* The message without the division by the step.
hmac_message_of_seconds(unix_ts, totp_entry) == unpack_u64(unix_ts)

\* The message that generate_hmac_bytes authenticates.
hmac_message(unix_ts, totp_entry) ==
    unpack_u64(U64Div(unix_ts, totp_entry.step_seconds))

generate_hmac_bytes(unix_ts, totp_entry, H) ==
    IF totp_entry.algorithm = "HmacSha1"
    THEN IF Hmac_new_from_slice(totp_entry.shared_secret) # "Ok"
         THEN [NoOutcome EXCEPT !.kind = "Err", !.why = "DigestLength"]
         ELSE IF totp_entry.step_seconds = 0
         THEN [NoOutcome EXCEPT !.kind = "Panic", !.why = "attempt to divide by zero"]
         ELSE LET message == hmac_message(unix_ts, totp_entry)
              IN  [NoOutcome EXCEPT !.kind = "Ok", !.msg = message,
                        !.hash = Hmac_finalize(H, totp_entry.shared_secret, message)]
    ELSE [NoOutcome EXCEPT !.kind = "Panic", !.why = "not yet implemented"]

\* The offset taken from the low five bits of the last byte (& 0x1f).
truncation_offset_five_bits(hash) ==
    BitAnd(IF Len(hash) = 0 THEN 0 ELSE hash[Len(hash)], 31)

\* (hash.last().unwrap_or(&0) & 0xf) as usize
truncation_offset(hash) ==
    BitAnd(IF Len(hash) = 0 THEN 0 ELSE hash[Len(hash)], 15)

\* The indices hash[offset] .. hash[offset + 3] of the truncation, from 0.
truncation_reads(offset) == offset .. (offset + 3)

\* The four bytes assembled least significant first.
truncate_binary_little_endian(hash, offset) ==
    BitOr(BitOr(BitOr(Shl(BitAnd(hash[offset + 4], 127), 24),
                      Shl(hash[offset + 3], 16)),
                Shl(hash[offset + 2], 8)),
          hash[offset + 1])

\* The four bytes at offset, the top bit of the first cleared, as one number.
truncate_binary(hash, offset) ==
    BitOr(BitOr(BitOr(Shl(BitAnd(hash[offset + 1], 127), 24),
                      Shl(hash[offset + 2], 16)),
                Shl(hash[offset + 3], 8)),
          hash[offset + 4])

DigitChar == <<"0", "1", "2", "3", "4", "5", "6", "7", "8", "9">>

RECURSIVE Decimal(_)
Decimal(n) ==
    IF n < 10 THEN <<DigitChar[n + 1]>>
    ELSE Decimal(n \div 10) \o <<DigitChar[(n % 10) + 1]>>

\* format!("{}", n): no padding.
format_unpadded(n, width) == Decimal(n)

\* format!("{:01$}", n, width): decimal, filled with '0' on the left to width.
format_zero_padded(n, width) ==
    LET s == Decimal(n)
    IN  IF Len(s) >= width THEN s
        ELSE [i \in 1..(width - Len(s)) |-> "0"] \o s

\* binary % modulus for binary < 2^31 and a u64 modulus that is not 0.
rem_u64(binary, modulus) ==
    IF FitsInt(modulus) THEN binary % ToInt(modulus) ELSE binary

generate_totp_code(unix_ts, totp_entry, H, checks) ==
    LET h == generate_hmac_bytes(unix_ts, totp_entry, H)
    IN  IF h.kind # "Ok" THEN h
        ELSE
        LET hash   == h.hash
            offset == truncation_offset(hash)
            reads  == truncation_reads(offset)
            read   == [h EXCEPT !.offset = offset, !.reads = reads]
        IN  IF \E i \in reads : i >= Len(hash)
            THEN [read EXCEPT !.kind = "Panic", !.why = "index out of bounds"]
            ELSE
            LET binary == truncate_binary(hash, offset)
                pow    == U64Pow10(totp_entry.digit_count)
                cut    == [read EXCEPT !.binary = binary]
            IN  IF pow.overflow /\ checks
                THEN [cut EXCEPT !.kind = "Panic", !.why = "attempt to multiply with overflow"]
                ELSE IF pow.value = U64(0)
                THEN [cut EXCEPT !.kind = "Panic",
                          !.why = "attempt to calculate the remainder with a divisor of zero"]
                ELSE [cut EXCEPT !.code = format_zero_padded(
                                     rem_u64(binary, pow.value), totp_entry.digit_count)]

\* The (key, message) pairs whose HMAC a call of generate_totp_code computes.
hmac_uses(unix_ts, totp_entry) ==
    IF /\ totp_entry.algorithm = "HmacSha1"
       /\ Hmac_new_from_slice(totp_entry.shared_secret) = "Ok"
       /\ totp_entry.step_seconds # 0
    THEN {<<totp_entry.shared_secret, hmac_message(unix_ts, totp_entry)>>}
    ELSE {}

----------------------------------------------------------------------------
(* The digests the environment draws from *)

SHA1_OUTPUT_SIZE == 20

\* The four bytes the truncation may land on: a small number (the code needs
\* padding), all bits set, a mixed value with the top bit set.
Windows == {<<0, 0, 0, 42>>, <<255, 255, 255, 255>>, <<146, 52, 86, 120>>}

\* A digest whose last byte selects offset off (its high nibble is not 0), with
\* the window w at off and distinct bytes everywhere else.
Digest(off, w) ==
    [i \in 1..SHA1_OUTPUT_SIZE |->
        IF i = SHA1_OUTPUT_SIZE THEN 80 + off
        ELSE IF i - 1 \in off .. (off + 3) THEN w[i - off]
        ELSE 160 + i]

Digests == {Digest(off, w) : off \in 0..15, w \in Windows}

\* hmac_memo extended by environment-chosen values for the pairs in uses.
HmacExtensions(memo, uses, digests) ==
    {memo @@ ext : ext \in [uses \ DOMAIN memo -> digests]}

----------------------------------------------------------------------------
(* Single engine calls: generate_totp_code on one input *)

U64Max == [p \in 1..8 |-> 255]

\* unix times: 0, the seconds around the first two 30 s boundaries, and the
\* top of the u64 range (2^64 - 16 is a multiple of 30).
EngineTimes == {U64(0), U64(29), U64(30), U64(59),
                [U64Max EXCEPT ![1] = 240], U64Max}

EngineSecrets == {<<>>, <<222, 173, 190, 239>>}
EngineSteps == {0, 1, 30, 65535}
MaxDigitCount == 10
EngineDigitCounts == (0..MaxDigitCount) \cup {20}

EngineEntries ==
    {TotpEntry("e", st, k, d, a) :
        st \in EngineSteps, k \in EngineSecrets, d \in EngineDigitCounts, a \in Algorithms}

Xtotp_new ==
    << TotpEntry("GitHub", 30, <<222, 173, 190, 239>>, 6, "HmacSha1"),
       TotpEntry("Google", 30, <<222, 173, 190, 237>>, 6, "HmacSha1") >>

AppIdle ==
    /\ totp_entries = Xtotp_new
    /\ pc = "loop"
    /\ inbox = <<>>
    /\ processed = <<>>
    /\ redraws = 0
    /\ screen = <<>>

EngineIdle ==
    /\ entry = Xtotp_new[1]
    /\ unix_timestamp = U64(0)
    /\ overflow_checks = FALSE
    /\ result = NoOutcome

CallsIdle ==
    /\ history = {}
    /\ calls = 0

EngineInit ==
    /\ AppIdle
    /\ CallsIdle
    /\ hmac_memo = <<>>
    /\ entry \in EngineEntries
    /\ unix_timestamp \in EngineTimes
    /\ overflow_checks \in BOOLEAN
    /\ result = NoOutcome

Generate ==
    /\ result.kind = "None"
    /\ \E H \in HmacExtensions(hmac_memo, hmac_uses(unix_timestamp, entry), Digests) :
          /\ hmac_memo' = H
          /\ result' = generate_totp_code(unix_timestamp, entry, H, overflow_checks)
    /\ UNCHANGED <<totp_entries, pc, inbox, processed, redraws, screen,
                   entry, unix_timestamp, overflow_checks, history, calls>>

EngineNext == Generate

SpecEngine == EngineInit /\ [][EngineNext]_vars

----------------------------------------------------------------------------
(* Properties of single engine calls (SpecEngine) *)

Called == result.kind # "None"

RECURSIVE Pow10Int(_)
Pow10Int(n) == IF n = 0 THEN 1 ELSE 10 * Pow10Int(n - 1)

IsDigit(c) == \E k \in 1..10 : DigitChar[k] = c
DigitValue(c) == (CHOOSE k \in 1..10 : DigitChar[k] = c) - 1

\* The number a string of digits denotes.
RECURSIVE DecimalValue(_)
DecimalValue(s) ==
    IF s = <<>> THEN 0
    ELSE 10 * DecimalValue(SubSeq(s, 1, Len(s) - 1)) + DigitValue(s[Len(s)])

\* C1: for a digit_count in 1..9 the string returned has exactly digit_count
\* characters, all digits, and denotes binary_code mod 10^digit_count (so it is
\* that number's decimal rendering, padded with '0' on the left).
C1_CodeIsPaddedDecimal ==
    (result.kind = "Ok" /\ entry.digit_count \in 1..9) =>
        /\ Len(result.code) = entry.digit_count
        /\ \A i \in 1..Len(result.code) : IsDigit(result.code[i])
        /\ DecimalValue(result.code) = result.binary % Pow10Int(entry.digit_count)

\* A six-digit code that needed four zeros of padding.
C1_Witness ==
    /\ result.kind = "Ok"
    /\ entry.digit_count = 6
    /\ result.binary = 42
    /\ result.code = <<"0", "0", "0", "0", "4", "2">>

\* Whether the call got as far as computing binary.
Truncated(r) == r.hash # <<>> /\ r.why # "index out of bounds"

\* C2: binary is the big-endian number of the four digest bytes at offset, the
\* top bit of the first cleared, with offset the low nibble of the last digest
\* byte; it lies in 0 .. 2^31 - 1.
C2_BinaryIsTruncation ==
    Truncated(result) =>
        LET hash == result.hash
            off  == hash[Len(hash)] % 16
        IN  /\ result.offset = off
            /\ result.binary = (hash[off + 1] % 128) * 16777216 + hash[off + 2] * 65536
                                 + hash[off + 3] * 256 + hash[off + 4]
            /\ result.binary >= 0
            /\ result.binary <= 2147483647

\* The truncation of a window whose first byte has its top bit set.
C2_Witness ==
    /\ Truncated(result)
    /\ result.offset = 15
    /\ result.hash[16] = 146
    /\ result.binary = 305419896

\* The number that 8 bytes denote read most significant byte first, as limbs.
RECURSIVE BigOfBE(_, _)
BigOfBE(bytes, k) ==
    IF k = 0 THEN U64(0)
    ELSE SubSeq(MulAddLimbs(BigOfBE(bytes, k - 1), 256, bytes[k], 1), 1, 8)

RECURSIVE BigLess(_, _, _)
BigLess(a, b, p) ==
    IF p = 0 THEN FALSE
    ELSE IF a[p] # b[p] THEN a[p] < b[p]
    ELSE BigLess(a, b, p - 1)

RECURSIVE DecLimbs(_, _)
DecLimbs(v, p) ==
    IF p > Len(v) THEN <<>>
    ELSE IF v[p] > 0 THEN <<v[p] - 1>> \o SubSeq(v, p + 1, Len(v))
    ELSE <<255>> \o DecLimbs(v, p + 1)

\* Whether the big-endian bytes msg denote floor(t / step).
IsCounterOf(msg, t, step) ==
    LET T    == BigOfBE(msg, 8)
        low  == MulAddLimbs(T, step, 0, 1)        \* T * step
        high == MulAddLimbs(T, step, step, 1)     \* (T + 1) * step
        t9   == t \o <<0>>
    IN  /\ Len(msg) = 8
        /\ ~BigLess(t9, low, 9)
        /\ BigLess(t9, high, 9)

\* C3: the HMAC message is the 8-byte big-endian encoding of
\* floor(unix_time / step_seconds); at a positive multiple of step_seconds the
\* second before has the counter one lower.
C3_MessageIsBigEndianCounter ==
    result.msg # <<>> =>
        /\ IsCounterOf(result.msg, unix_timestamp, entry.step_seconds)
        /\ LET T == BigOfBE(result.msg, 8)
           IN  (/\ unix_timestamp # U64(0)
                /\ MulAddLimbs(T, entry.step_seconds, 0, 1) = unix_timestamp \o <<0>>)
               => BigOfBE(hmac_message(DecLimbs(unix_timestamp, 1), entry), 8)
                     = DecLimbs(T, 1)

\* The counter of the largest multiple of 30 below 2^64, 0x0888888888888888.
C3_Witness ==
    /\ result.kind = "Ok"
    /\ entry.step_seconds = 30
    /\ unix_timestamp = [U64Max EXCEPT ![1] = 240]
    /\ result.msg = <<8, 136, 136, 136, 136, 136, 136, 136>>

\* C4: the truncation reads no index at or past the length of a digest that
\* generate_hmac_bytes returned.
C4_TruncationInBounds ==
    result.hash # <<>> =>
        /\ result.reads # {}
        /\ \A i \in result.reads : i < Len(result.hash)

\* The largest offset: the read of the digest's index 18.
C4_Witness ==
    /\ result.kind = "Ok"
    /\ result.offset = 15
    /\ 18 \in result.reads
    /\ Len(result.hash) = SHA1_OUTPUT_SIZE

ValidEntry(e) ==
    /\ e.step_seconds > 0
    /\ e.shared_secret # <<>>
    /\ e.digit_count \in 1..9
    /\ e.algorithm \in Algorithms

\* C5 (as claimed): for a valid entry of any of the three algorithms the call
\* completes with a string of digit_count characters.
C5_AllAlgorithmsComplete ==
    (Called /\ ValidEntry(entry)) =>
        /\ result.kind = "Ok"
        /\ Len(result.code) = entry.digit_count

\* C6 (as claimed): a call with an empty shared_secret returns an error and no
\* code. Stated for entries that use HMAC-SHA1 and are valid but for the secret.
C6_EmptySecretIsError ==
    (/\ Called
     /\ entry.shared_secret = <<>>
     /\ entry.algorithm = "HmacSha1"
     /\ entry.step_seconds > 0
     /\ entry.digit_count \in 1..9) =>
        /\ result.kind = "Err"
        /\ result.code = <<>>

\* C7 (as claimed): a call with a digit_count outside 1..9 or a step_seconds of 0
\* returns an error: no code and no abort. Stated for entries that use HMAC-SHA1
\* and have a secret.
C7_InvalidEntryIsError ==
    (/\ Called
     /\ entry.algorithm = "HmacSha1"
     /\ entry.shared_secret # <<>>
     /\ (entry.digit_count \notin 1..9 \/ entry.step_seconds = 0)) =>
        /\ result.kind = "Err"
        /\ result.code = <<>>

----------------------------------------------------------------------------
(* Repeated engine calls: generate_totp_code called again and again *)

MaxCalls == 4

CallTimes == {U64(0), U64(29), U64(30)}

CallEntries ==
    {TotpEntry("a", 30, <<222, 173, 190, 239>>, 6, "HmacSha1"),
     TotpEntry("a", 30, <<222, 173, 190, 239>>, 8, "HmacSha1"),
     TotpEntry("c", 30, <<222, 173, 190, 239>>, 6, "HmacSha256")}

CallDigests == {Digest(0, <<0, 0, 0, 42>>), Digest(15, <<146, 52, 86, 120>>)}

CallsInit ==
    /\ AppIdle
    /\ EngineIdle
    /\ CallsIdle
    /\ hmac_memo = <<>>

\* One call of generate_totp_code, on any entry and time, after any others.
Call ==
    /\ calls < MaxCalls
    /\ \E e \in CallEntries, t \in CallTimes :
         \E H \in HmacExtensions(hmac_memo, hmac_uses(t, e), CallDigests) :
            LET r == generate_totp_code(t, e, H, overflow_checks)
            IN  /\ hmac_memo' = H
                /\ entry' = e
                /\ unix_timestamp' = t
                /\ result' = r
                /\ history' = history \cup
                      {[entry |-> e, time |-> t, kind |-> r.kind, code |-> r.code]}
    /\ calls' = calls + 1
    /\ UNCHANGED <<totp_entries, pc, inbox, processed, redraws, screen, overflow_checks>>

CallsNext == Call

SpecCalls == CallsInit /\ [][CallsNext]_vars

\* Whether two recorded calls had the same entry and times in the same time step.
SameStep(a, b) ==
    /\ a.entry = b.entry
    /\ \/ a.time = b.time
       \/ /\ a.entry.step_seconds > 0
          /\ ToInt(a.time) \div a.entry.step_seconds
               = ToInt(b.time) \div b.entry.step_seconds

\* C8: calls with the same entry and unix times of the same time step return the
\* same result, whatever was called in between.
C8_SameStepSameResult ==
    \A a \in history : \A b \in history :
        SameStep(a, b) => (a.kind = b.kind /\ a.code = b.code)

\* Two times of one step gave one code, and a time of the next step another.
C8_Witness ==
    \E a \in history : \E b \in history : \E c \in history :
        /\ a.entry = b.entry /\ b.entry = c.entry
        /\ a.time = U64(0) /\ b.time = U64(29) /\ c.time = U64(30)
        /\ a.kind = "Ok" /\ a.code = b.code /\ c.code # a.code

----------------------------------------------------------------------------
(* The application *)

MaxMsgs == 4

\* Message ids: 0 and 1 are the values of XtotpOp, 2 is no XtotpOp.
MsgIds == {0, 1, 2}

\* What SystemTime::now().duration_since(UNIX_EPOCH) gives: seconds, or an error
\* when the clock is before the epoch.
AppClock == {"Err", U64(29), U64(30)}

AppDigests == {Digest(0, <<0, 0, 0, 42>>), Digest(15, <<146, 52, 86, 120>>)}

\* from_usize for an XtotpOp declared with Quit first (Quit = 0, Redraw = 1).
from_usize_quit_first(id) ==
    IF id = 0 THEN "Quit"
    ELSE IF id = 1 THEN "Redraw"
    ELSE "None"

\* FromPrimitive::from_usize for XtotpOp.
from_usize(id) ==
    IF id = 0 THEN "Redraw"
    ELSE IF id = 1 THEN "Quit"
    ELSE "None"

\* get_current_unix_time().unwrap_or(0)
current_unix_time_or_0(now) == IF now = "Err" THEN U64(0) ELSE now

\* The loop of Xtotp::redraw over the entries: the text views it posts (one per
\* entry, 20 pixels apart) and whether an expect() on a code aborted it.
redraw_views(entries, now, H, checks) ==
    LET current_ts == current_unix_time_or_0(now)
        codes  == [i \in 1..Len(entries) |->
                      generate_totp_code(current_ts, entries[i], H, checks)]
        failed == {i \in 1..Len(entries) : codes[i].kind # "Ok"}
        drawn  == IF failed = {} THEN Len(entries)
                  ELSE (CHOOSE i \in failed : \A j \in failed : i <= j) - 1
    IN  [screen   |-> [i \in 1..drawn |->
                          [y |-> (i - 1) * 20, name |-> entries[i].name,
                           code |-> codes[i].code]],
         panicked |-> failed # {}]

\* A redraw that consumes the entries it draws (totp_entries.drain(..)).
Xtotp_redraw_draining(entries, now, H, checks) ==
    LET views == redraw_views(entries, now, H, checks)
    IN  [totp_entries |-> <<>>, screen |-> views.screen, panicked |-> views.panicked]

\* Xtotp::redraw: the entries it leaves (it iterates over them by reference),
\* the text views and whether it aborted.
Xtotp_redraw(entries, now, H, checks) ==
    LET views == redraw_views(entries, now, H, checks)
    IN  [totp_entries |-> entries, screen |-> views.screen, panicked |-> views.panicked]

Init ==
    /\ AppIdle
    /\ EngineIdle
    /\ CallsIdle
    /\ hmac_memo = <<>>

\* Another process sends the server a message.
Send ==
    /\ Len(inbox) + Len(processed) < MaxMsgs
    /\ \E id \in MsgIds : inbox' = Append(inbox, id)
    /\ UNCHANGED <<totp_entries, pc, processed, redraws, screen, hmac_memo,
                   entry, unix_timestamp, overflow_checks, result, history, calls>>

\* One turn of the loop of xmain: receive_message and the match on its id.
ReceiveMessage ==
    /\ pc = "loop"
    /\ inbox # <<>>
    /\ inbox' = Tail(inbox)
    /\ processed' = Append(processed, Head(inbox))
    /\ \/ /\ from_usize(Head(inbox)) = "Redraw"
          /\ \E now \in AppClock :
               \E H \in HmacExtensions(hmac_memo,
                            UNION {hmac_uses(current_unix_time_or_0(now), totp_entries[i]) :
                                      i \in 1..Len(totp_entries)},
                            AppDigests) :
                  LET r == Xtotp_redraw(totp_entries, now, H, overflow_checks)
                  IN  /\ hmac_memo' = H
                      /\ totp_entries' = r.totp_entries
                      /\ screen' = r.screen
                      /\ pc' = IF r.panicked THEN "panicked" ELSE "loop"
          /\ redraws' = redraws + 1
       \/ /\ from_usize(Head(inbox)) = "Quit"
          /\ pc' = "terminated"
          /\ UNCHANGED <<totp_entries, redraws, screen, hmac_memo>>
       \/ /\ from_usize(Head(inbox)) = "None"
          /\ UNCHANGED <<totp_entries, pc, redraws, screen, hmac_memo>>
    /\ UNCHANGED <<entry, unix_timestamp, overflow_checks, result, history, calls>>

Next == Send \/ ReceiveMessage

Spec == Init /\ [][Next]_vars

\* C9: redraws leave the configured entries, and every field of each, as
\* Xtotp::new set them.
C9_RedrawKeepsEntries == totp_entries = Xtotp_new

\* Two redraws have drawn both entries, and the entries are as configured.
C9_Witness ==
    /\ redraws = 2
    /\ Len(screen) = 2
    /\ screen[1].name = "GitHub" /\ screen[2].name = "Google"
    /\ totp_entries = Xtotp_new

RECURSIVE Count(_, _)
Count(s, x) ==
    IF s = <<>> THEN 0
    ELSE (IF Head(s) = x THEN 1 ELSE 0) + Count(Tail(s), x)

\* C10: there is one redraw per Redraw message received and none for any other
\* message; the loop has ended exactly when the last message received is a Quit,
\* and no message is received after a Quit.
C10_LoopDispatch ==
    /\ redraws = Count(processed, 0)
    /\ \A i \in 1..Len(processed) : processed[i] = 1 => i = Len(processed)
    /\ (pc = "terminated") <=> (processed # <<>> /\ processed[Len(processed)] = 1)
    /\ pc \in {"loop", "terminated"}

\* A redraw, an unknown message, a Quit, and a Redraw that stays unreceived.
C10_Witness ==
    /\ processed = <<0, 2, 1>>
    /\ inbox = <<0>>
    /\ redraws = 1
    /\ pc = "terminated"

====
